---- MODULE Spec2Model ----
(***************************************************************************)
(* A model of bin/sync.js of unity3d-package-syncer: the three phases that *)
(* reconcile <cwd>/Assets/Plugins/Packages with the dependencies declared  *)
(* in <cwd>/package.json.                                                  *)
(*                                                                         *)
(* The file system is a function from absolute paths to nodes.  The path   *)
(* functions split the program's strings at their slashes, and the         *)
(* substring test of the safety guard works on the characters of the path. *)
(***************************************************************************)
EXTENDS Integers, Sequences, FiniteSets, TLC

VARIABLES
  fs,                            \* the file system: path -> node
  pc,                            \* position of the process in sync.js
  projectDependencies,           \* keys of the manifest's dependencies, in order
  depIndex,                      \* Phase 1: index of the dependency at hand
  extraIndex,                    \* Phase 1: index into extraFiles
  projectPackageListing,         \* Phase 2: the packages listed
  projectRedundantPackageNames,  \* Phase 2: the names to remove
  redundantIndex,                \* Phase 2: index of the name at hand
  projectPackageScopes,          \* Phase 3: the scope directories listed
  scopeIndex,                    \* Phase 3: index of the scope at hand
  failure,                       \* the error that ended the run, or "none"
  validated,                     \* paths handed to the safety guard in this run
  ops,                           \* file-system calls of this run, in order
  invocation,                    \* "first" or "rerun"
  interrupted,                   \* the first invocation did not reach the end
  fs0,                           \* the file system before the first invocation
  fsFirst,                       \* the file system the first invocation left
  fsPhase1                       \* the file system Phase 1 of this run left

vars == <<fs, pc, projectDependencies, depIndex, extraIndex, projectPackageListing,
          projectRedundantPackageNames, redundantIndex, projectPackageScopes,
          scopeIndex, failure, validated, ops, invocation, interrupted, fs0,
          fsFirst, fsPhase1>>

-----------------------------------------------------------------------------
(* Strings and paths (node's String.prototype and path module, POSIX).      *)
(* An absolute path is kept as the sequence of its segments; PathString is  *)
(* the string the program holds.                                            *)

\* s.startsWith(prefix)
StartsWith(s, prefix) ==
  /\ Len(s) >= Len(prefix)
  /\ SubSeq(s, 1, Len(prefix)) = prefix

\* s.includes(needle): needle occurs in s as a substring
Includes(s, needle) ==
  \E k \in 1..(Len(s) - Len(needle) + 1) :
    SubSeq(s, k, k + Len(needle) - 1) = needle

\* the index of the first "/" of s at or after k, or Len(s) + 1
RECURSIVE SlashFrom(_, _)
SlashFrom(s, k) ==
  IF k > Len(s) THEN Len(s) + 1
  ELSE IF SubSeq(s, k, k) = "/" THEN k
  ELSE SlashFrom(s, k + 1)

\* the non-empty segments of the string s between its slashes
RECURSIVE Segments(_)
Segments(s) ==
  IF Len(s) = 0 THEN <<>>
  ELSE LET k == SlashFrom(s, 1)
           rest == Segments(SubSeq(s, k + 1, Len(s)))
       IN IF k = 1 THEN rest ELSE <<SubSeq(s, 1, k - 1)>> \o rest

\* path.normalize: the segments segs applied to the path done: "." is
\* dropped and ".." drops the segment before it (the root is its own parent)
RECURSIVE NormalizeOnto(_, _)
NormalizeOnto(done, segs) ==
  IF segs = <<>> THEN done
  ELSE LET seg == Head(segs) IN
       IF seg = "." THEN NormalizeOnto(done, Tail(segs))
       ELSE IF seg = ".."
         THEN NormalizeOnto(IF done = <<>> THEN done
                            ELSE SubSeq(done, 1, Len(done) - 1), Tail(segs))
       ELSE NormalizeOnto(Append(done, seg), Tail(segs))

\* the string of an absolute path
RECURSIVE PathString(_)
PathString(path) ==
  IF path = <<>> THEN "/"
  ELSE IF Len(path) = 1 THEN "/" \o path[1]
  ELSE PathString(SubSeq(path, 1, Len(path) - 1)) \o "/" \o path[Len(path)]

\* path.join(base, rel), base an absolute path, rel a string
PathJoin(base, rel) == NormalizeOnto(base, Segments(rel))

\* path.resolve(base, rel): an absolute rel replaces base
PathResolve(base, rel) ==
  IF StartsWith(rel, "/") THEN NormalizeOnto(<<>>, Segments(rel))
  ELSE NormalizeOnto(base, Segments(rel))

\* path p lies strictly beneath directory d
Under(p, d) == Len(p) > Len(d) /\ SubSeq(p, 1, Len(d)) = d

\* p is d or lies beneath it
Within(p, d) == p = d \/ Under(p, d)

\* p and every directory above it
Ancestors(p) == { SubSeq(p, 1, k) : k \in 0..Len(p) }

-----------------------------------------------------------------------------
(* The file system primitives sync.js calls (fs, fs-extra, extfs).  Each    *)
(* has a Can... predicate: the call throws exactly when it is false.        *)

Dir == [type |-> "dir"]
File(data) == [type |-> "file", data |-> data]

\* fs.existsSync(p)
ExistsSync(f, p) == p \in DOMAIN f
IsDirectory(f, p) == p \in DOMAIN f /\ f[p].type = "dir"
IsFile(f, p) == p \in DOMAIN f /\ f[p].type = "file"

\* the names in directory d
Names(f, d) ==
  { p[Len(p)] : p \in { q \in DOMAIN f : Under(q, d) /\ Len(q) = Len(d) + 1 } }

\* the members of a set, one after the other
RECURSIVE Listed(_)
Listed(S) ==
  IF S = {} THEN <<>>
  ELSE LET x == CHOOSE x \in S : TRUE IN <<x>> \o Listed(S \ {x})

\* fs.readdirSync(d) throws unless d is a directory; it returns the names in
\* d in the order the directory keeps them, which Listed stands for
CanReaddirSync(f, d) == IsDirectory(f, d)
ReaddirSync(f, d) == Listed(Names(f, d))

\* fs.readJsonSync(p) throws unless p is a file holding JSON
CanReadJsonSync(f, p) == IsFile(f, p) /\ "text" \notin DOMAIN f[p].data
ReadJsonSync(f, p) == f[p].data

\* fs.removeSync(p): p and all beneath it; a missing p is not an error
RemoveSync(f, p) ==
  [q \in { q \in DOMAIN f : ~Within(q, p) } |-> f[q]]

\* fs.unlinkSync(p) throws unless p is a file
CanUnlinkSync(f, p) == IsFile(f, p)
UnlinkSync(f, p) == [q \in DOMAIN f \ {p} |-> f[q]]

\* fs.mkdirsSync(p): p and its missing ancestors become directories
CanMkdirsSync(f, p) == \A a \in Ancestors(p) : ~IsFile(f, a)
MkdirsSync(f, p) ==
  [q \in DOMAIN f \cup Ancestors(p) |-> IF q \in DOMAIN f THEN f[q] ELSE Dir]

\* fs.emptyDirSync(d): the children of a directory d are removed; when d
\* cannot be listed it is created
CanEmptyDirSync(f, d) == IsDirectory(f, d) \/ CanMkdirsSync(f, d)
\* (a directory that is made when missing and kept with what it holds)
EnsureDirSync(f, d) == IF IsDirectory(f, d) THEN f ELSE MkdirsSync(f, d)
EmptyDirSync(f, d) ==
  IF IsDirectory(f, d)
    THEN [q \in { q \in DOMAIN f : ~Under(q, d) } |-> f[q]]
    ELSE MkdirsSync(f, d)

\* the path below dst that the path q below src is copied to
CopyTarget(src, dst, q) == dst \o SubSeq(q, Len(src) + 1, Len(q))

\* fs.copySync(src, dst): a file onto a file or a free name, a directory
\* merged into a directory; existing files are overwritten
CanCopySync(f, src, dst) ==
  /\ ExistsSync(f, src)
  /\ ~Within(dst, src)
  /\ \A a \in Ancestors(dst) \ {dst} : ~IsFile(f, a)
  /\ \A q \in { q \in DOMAIN f : Within(q, src) } :
       LET t == CopyTarget(src, dst, q) IN
       ExistsSync(f, t) => f[t].type = f[q].type
CopySync(f, src, dst) ==
  LET copied == { q \in DOMAIN f : Within(q, src) }
      made == MkdirsSync(f, dst)
      targets == { CopyTarget(src, dst, q) : q \in copied }
      from(t) == CHOOSE q \in copied : CopyTarget(src, dst, q) = t
  IN [t \in (DOMAIN made \ {dst}) \cup targets |->
        IF t \in targets THEN f[from(t)] ELSE made[t]]

\* (an emptiness test that takes every directory for empty)
IsEmptyAlways(f, d) == TRUE

\* extfs.isEmptySync(d): a directory without entries
IsEmptySync(f, d) == Names(f, d) = {}

-----------------------------------------------------------------------------
(* The constants of sync.js (lines 19-31).                                  *)

PROJECT_RELATIVE_PACKAGES_PATH == "Assets" \o "/" \o "Plugins" \o "/" \o "Packages"

projectRootDir == Segments("/proj")
projectConfigPath == PathJoin(projectRootDir, "package.json")
projectPackagesDir == PathJoin(projectRootDir, PROJECT_RELATIVE_PACKAGES_PATH)

specialKeyword == "unity3d-package"
extraFiles == <<"package.json", "README.md", "LICENSE">>

\* Object.keys(projectConfig.dependencies || { })
DependenciesOf(projectConfig) ==
  IF "dependencies" \in DOMAIN projectConfig THEN projectConfig.dependencies ELSE <<>>

\* the elements of a sequence
Range(s) == { s[k] : k \in DOMAIN s }

\* (the names of the dependencies that carry the keyword only)
markedDependencyNames ==
  { name \in Range(projectDependencies) :
      LET config == PathJoin(PathJoin(PathJoin(projectRootDir, "node_modules"), name),
                             "package.json")
      IN /\ CanReadJsonSync(fs, config)
         /\ "keywords" \in DOMAIN ReadJsonSync(fs, config)
         /\ specialKeyword \in ReadJsonSync(fs, config).keywords }

\* new Set(Object.keys(projectDependencies))
projectDependencyNames == Range(projectDependencies)

-----------------------------------------------------------------------------
(* Helper functions of sync.js (lines 138-167).                             *)

\* (a guard that lets every path pass)
validateNothing(packageDir) == TRUE

\* validateProjectPackageDirectory returns (TRUE) or throws (FALSE)
validateProjectPackageDirectory(packageDir) ==
  Includes(PathString(packageDir), PROJECT_RELATIVE_PACKAGES_PATH)

\* [].concat(...arrays)
RECURSIVE Concat(_)
Concat(arrays) ==
  IF arrays = <<>> THEN <<>> ELSE Head(arrays) \o Concat(Tail(arrays))

\* flatMap(a, cb): the concatenation of cb's results
flatMap(a, cb) == Concat([k \in DOMAIN a |-> cb[a[k]]])

\* getDirectories(srcpath): the names in srcpath that are directories
getDirectories(f, srcpath) ==
  SelectSeq(ReaddirSync(f, srcpath),
            LAMBDA file : IsDirectory(f, PathJoin(srcpath, file)))

\* (the directories that are no scope)
getProjectPackageScopesInverted(f) ==
  SelectSeq(getDirectories(f, projectPackagesDir),
            LAMBDA packageDirectory : ~StartsWith(packageDirectory, "@"))

\* getProjectPackageScopes()
getProjectPackageScopes(f) ==
  SelectSeq(getDirectories(f, projectPackagesDir),
            LAMBDA packageDirectory : StartsWith(packageDirectory, "@"))

\* (a listing that takes every directory for a package, scopes too)
getProjectPackageListingFlat(f) == getDirectories(f, projectPackagesDir)

\* (a listing that names the packages of a scope without their scope)
getProjectPackageListingUnscoped(f) ==
  LET entry(packageDirectory) ==
        IF StartsWith(packageDirectory, "@")
          THEN getDirectories(f, PathJoin(projectPackagesDir, packageDirectory))
          ELSE <<packageDirectory>>
      directories == getDirectories(f, projectPackagesDir)
  IN flatMap(directories,
             [packageDirectory \in Range(directories) |-> entry(packageDirectory)])

\* getProjectPackageListing()
getProjectPackageListing(f) ==
  LET scoped(packageDirectory) ==
        LET names == getDirectories(f, PathJoin(projectPackagesDir, packageDirectory))
        IN [k \in DOMAIN names |-> packageDirectory \o "/" \o names[k]]
      entry(packageDirectory) ==
        IF StartsWith(packageDirectory, "@")
          THEN scoped(packageDirectory) ELSE <<packageDirectory>>
      directories == getDirectories(f, projectPackagesDir)
  IN flatMap(directories,
             [packageDirectory \in Range(directories) |-> entry(packageDirectory)])

-----------------------------------------------------------------------------
(* Phase 1 (lines 39-90), one dependency.                                   *)

dependencyDir(dependencyName) ==
  PathJoin(PathJoin(projectRootDir, "node_modules"), dependencyName)
dependencyConfigPath(dependencyName) ==
  PathJoin(dependencyDir(dependencyName), "package.json")
assetsTargetPath(dependencyName) == PathResolve(projectPackagesDir, dependencyName)
assetsTargetConfigPath(dependencyName) ==
  PathJoin(assetsTargetPath(dependencyName), "package.json")

\* config.keywords || [ ]
KeywordsOf(config) == IF "keywords" \in DOMAIN config THEN config.keywords ELSE {}
\* config.version, <<>> standing for undefined
VersionOf(config) == IF "version" \in DOMAIN config THEN <<config.version>> ELSE <<>>

\* (every dependency taken for one that carries the keyword)
HasMarkerAlways(f, dependencyName) == TRUE

\* lines 40-48: the dependency is one this mechanism installs
HasMarker(f, dependencyName) ==
  specialKeyword \in KeywordsOf(ReadJsonSync(f, dependencyConfigPath(dependencyName)))

\* (versions compared up to trailing parts: 1.0 is taken for 1.0.0)
SameVersionPrefix(f, dependencyName) ==
  LET source == ReadJsonSync(f, dependencyConfigPath(dependencyName))
      target == ReadJsonSync(f, assetsTargetConfigPath(dependencyName))
  IN IF "version" \in DOMAIN source /\ "version" \in DOMAIN target
       THEN \/ StartsWith(source.version, target.version)
            \/ StartsWith(target.version, source.version)
       ELSE VersionOf(source) = VersionOf(target)

\* (the version of the dependency compared with that of the project)
SameVersionAsProject(f, dependencyName) ==
  VersionOf(ReadJsonSync(f, dependencyConfigPath(dependencyName)))
    = VersionOf(ReadJsonSync(f, projectConfigPath))

\* lines 58-68: the installed package has the version of the dependency
SameVersion(f, dependencyName) ==
  VersionOf(ReadJsonSync(f, dependencyConfigPath(dependencyName)))
    = VersionOf(ReadJsonSync(f, assetsTargetConfigPath(dependencyName)))

\* lines 40-68: what the loop body decides before it changes anything
DependencyDecision(f, dependencyName) ==
  IF ~CanReadJsonSync(f, dependencyConfigPath(dependencyName)) THEN "error"
  ELSE IF ~HasMarker(f, dependencyName) THEN "skip"
  ELSE IF ~validateProjectPackageDirectory(assetsTargetPath(dependencyName))
    THEN "unsafe"
  ELSE IF ~ExistsSync(f, assetsTargetConfigPath(dependencyName)) THEN "install"
  ELSE IF ~CanReadJsonSync(f, assetsTargetConfigPath(dependencyName)) THEN "broken"
  ELSE IF SameVersion(f, dependencyName) THEN "latest"
  ELSE "install"

\* copyIfExistsSync (lines 80-89): the source and the target of the copy
CopySource(dependencyName, sourceRelativeFileName) ==
  PathJoin(dependencyDir(dependencyName), sourceRelativeFileName)
CopyDestination(dependencyName, targetRelativeFileName) ==
  PathJoin(assetsTargetPath(dependencyName), targetRelativeFileName)

\* (the copy without the test that the source exists)
CanCopyUnchecked(f, dependencyName, sourceRelativeFileName, targetRelativeFileName) ==
  CanCopySync(f, CopySource(dependencyName, sourceRelativeFileName),
                 CopyDestination(dependencyName, targetRelativeFileName))

CanCopyIfExistsSync(f, dependencyName, sourceRelativeFileName, targetRelativeFileName) ==
  ExistsSync(f, CopySource(dependencyName, sourceRelativeFileName))
    => CanCopySync(f, CopySource(dependencyName, sourceRelativeFileName),
                      CopyDestination(dependencyName, targetRelativeFileName))
copyIfExistsSync(f, dependencyName, sourceRelativeFileName, targetRelativeFileName) ==
  IF ExistsSync(f, CopySource(dependencyName, sourceRelativeFileName))
    THEN CopySync(f, CopySource(dependencyName, sourceRelativeFileName),
                     CopyDestination(dependencyName, targetRelativeFileName))
    ELSE f

-----------------------------------------------------------------------------
(* The file systems a run may start from: a project with a manifest, the    *)
(* packages npm has put under node_modules, and what earlier runs and the   *)
(* Unity editor have left in the packages directory.                        *)

MaxDependencies == 2    \* dependencies a manifest declares, at most
MaxInstalled == 2       \* items in the packages directory before the run, at most

\* f with a file at p, its directory made as needed
WriteFile(f, p, data) ==
  LET made == MkdirsSync(f, p) IN [made EXCEPT ![p] = File(data)]

RECURSIVE WriteFiles(_, _, _)
WriteFiles(f, dir, files) ==
  IF files = <<>> THEN f
  ELSE WriteFiles(WriteFile(f, PathJoin(dir, Head(files)[1]), Head(files)[2]),
                  dir, Tail(files))

Text(t) == [text |-> t]

\* the packages under node_modules: a name and the files of the package
\* (none: a dependency that is declared and not there)
SourcePackages ==
  { [name |-> "foo",
     files |-> << <<"package.json", [version |-> "1.0.0", keywords |-> {specialKeyword}]>>,
                  <<"README.md", Text("new")>>, <<"LICENSE", Text("new")>>,
                  <<"assets/a.txt", Text("new")>>,
                  <<"assets/README.md", Text("asset")>>,
                  <<"assets/Editor/e.cs", Text("new")>> >>],
    [name |-> "foo",
     files |-> << <<"package.json", [version |-> "1.0.0",
                                     keywords |-> {"unity", specialKeyword}]>>,
                  <<"README.md", Text("new")>>,
                  <<"assets/a.txt", Text("new")>>,
                  <<"assets/LICENSE", Text("asset")>> >>],
    [name |-> "foo",
     files |-> << <<"package.json", [version |-> "1.0.0", keywords |-> {"unity"}]>>,
                  <<"README.md", Text("new")>>,
                  <<"assets/a.txt", Text("new")>> >>],
    [name |-> "@org/foo", files |-> << >>],
    [name |-> "@org/foo",
     files |-> << <<"package.json", [version |-> "1.0.0", keywords |-> {specialKeyword}]>> >>],
    [name |-> "@org/foo",
     files |-> << <<"package.json", [version |-> "1.0.0"]>>,
                  <<"assets/a.txt", Text("new")>> >>],
    [name |-> "a/b",
     files |-> << <<"package.json", [version |-> "1.0.0", keywords |-> {specialKeyword}]>>,
                  <<"LICENSE", Text("new")>> >>],
    [name |-> "../PackagesOld/x",
     files |-> << <<"package.json", [version |-> "1.0.0", keywords |-> {specialKeyword}]>>,
                  <<"assets/a.txt", Text("new")>> >>],
    [name |-> "../../evil",
     files |-> << <<"package.json", [version |-> "1.0.0", keywords |-> {specialKeyword}]>>,
                  <<"assets/a.txt", Text("new")>> >>] }

\* the manifests: the packages declared; the manifests list their keys in
\* the order of PackageNames
PackageNames == <<"foo", "@org/foo", "a/b", "../PackagesOld/x", "../../evil">>
Position(name) == CHOOSE k \in DOMAIN PackageNames : PackageNames[k] = name
Declarations ==
  { d \in UNION { [1..n -> SourcePackages] : n \in 0..MaxDependencies } :
      \A a, b \in DOMAIN d : a < b => Position(d[a].name) < Position(d[b].name) }

\* what the packages directory may hold before the run: installed packages
\* (of the version of the source, of another version, without a manifest),
\* with or without their .meta files, one beside a .meta file that has lost
\* its package
InstalledItems ==
  { [name |-> "foo",
     files |-> << <<"foo/package.json", [version |-> "1.0.0"]>>,
                  <<"foo/old.txt", Text("old")>>, <<"foo.meta", Text("meta")>> >>],
    [name |-> "foo",
     files |-> << <<"foo/package.json", [version |-> "1.0"]>>,
                  <<"foo/old.txt", Text("old")>>, <<"foo/LICENSE", Text("old")>> >>],
    [name |-> "foo",
     files |-> << <<"foo/old.txt", Text("old")>>, <<"foo.meta", Text("meta")>> >>],
    [name |-> "bar",
     files |-> << <<"bar/package.json", [version |-> "1.0.0"]>>,
                  <<"bar.meta", Text("meta")>> >>],
    [name |-> "@org/foo",
     files |-> << <<"@org/foo/package.json", [version |-> "1.0.0"]>>,
                  <<"@org/foo.meta", Text("meta")>>, <<"@org.meta", Text("meta")>> >>],
    [name |-> "@org/foo",
     files |-> << <<"@org/foo/package.json", [version |-> "1.0"]>>,
                  <<"@org/foo/old.txt", Text("old")>>,
                  <<"@org/foo/LICENSE", Text("old")>> >>],
    [name |-> "@org/bar",
     files |-> << <<"@org/bar/package.json", [version |-> "1.0.0"]>>,
                  <<"@org/bar.meta", Text("meta")>>, <<"@org.meta", Text("meta")>> >>],
    [name |-> "@etc/foo",
     files |-> << <<"@etc/foo/package.json", [version |-> "1.0.0"]>>,
                  <<"@etc/gone.meta", Text("meta")>>, <<"@etc.meta", Text("meta")>> >>] }

Installations ==
  { i \in SUBSET InstalledItems :
      /\ Cardinality(i) <= MaxInstalled
      /\ \A a, b \in i : a.name = b.name => a = b }

\* the project directory with its Assets/Plugins/Packages, before npm and
\* the manifest
EmptyProject ==
  MkdirsSync(MkdirsSync([p \in {<<>>} |-> Dir], projectPackagesDir),
             PathJoin(projectRootDir, "node_modules"))

RECURSIVE WithSources(_, _)
WithSources(f, declared) ==
  IF declared = <<>> THEN f
  ELSE WithSources(WriteFiles(f, dependencyDir(Head(declared).name), Head(declared).files),
                   Tail(declared))

RECURSIVE WithInstalled(_, _)
WithInstalled(f, items) ==
  IF items = {} THEN f
  ELSE LET i == CHOOSE i \in items : TRUE
       IN WithInstalled(WriteFiles(f, projectPackagesDir, i.files), items \ {i})

\* the manifest of the project: without dependencies it has no such key
Manifest(declared) ==
  IF declared = <<>> THEN [version |-> "0.1.0"]
  ELSE [version |-> "0.1.0",
        dependencies |-> [k \in DOMAIN declared |-> declared[k].name]]

\* the projects: without manifest, with a manifest that is no JSON, with a
\* manifest and the packages it declares
InitialFileSystems ==
  { WithInstalled(EmptyProject, i) : i \in Installations }
    \cup { WriteFile(WithInstalled(EmptyProject, i), projectConfigPath, Text("{")) :
             i \in Installations }
    \cup UNION { { WriteFile(WithInstalled(WithSources(EmptyProject, d), i),
                           projectConfigPath, Manifest(d)) : i \in Installations } :
               d \in Declarations }

-----------------------------------------------------------------------------
(* The run of sync.js.                                                      *)

locals == <<projectDependencies, depIndex, extraIndex, projectPackageListing,
            projectRedundantPackageNames, redundantIndex, projectPackageScopes,
            scopeIndex>>
history == <<invocation, interrupted, fs0, fsFirst>>

\* (an exception that is caught and recorded: the run goes on)
ThrowCaught(error) == pc' = pc /\ failure' = error

\* an uncaught exception ends the process
Throw(error) == pc' = "aborted" /\ failure' = error

\* a call of the file system, as the run's record keeps it
Call(op, path) == [op |-> op, path |-> path]

Init ==
  /\ fs \in InitialFileSystems
  /\ fs0 = fs
  /\ fsFirst = fs
  /\ fsPhase1 = fs
  /\ pc = "load"
  /\ projectDependencies = <<>>
  /\ depIndex = 0
  /\ extraIndex = 0
  /\ projectPackageListing = <<>>
  /\ projectRedundantPackageNames = <<>>
  /\ redundantIndex = 0
  /\ projectPackageScopes = <<>>
  /\ scopeIndex = 0
  /\ failure = "none"
  /\ validated = {}
  /\ ops = <<>>
  /\ invocation = "first"
  /\ interrupted = FALSE

\* (a manifest that cannot be read is taken for one without dependencies)
LoadManifestLenient ==
  /\ pc = "load"
  /\ projectDependencies' =
       IF CanReadJsonSync(fs, projectConfigPath)
         THEN DependenciesOf(ReadJsonSync(fs, projectConfigPath)) ELSE <<>>
  /\ depIndex' = 1
  /\ pc' = "phase1"
  /\ UNCHANGED <<extraIndex, projectPackageListing, projectRedundantPackageNames,
                 redundantIndex, projectPackageScopes, scopeIndex, failure>>
  /\ UNCHANGED <<fs, validated, ops, history, fsPhase1>>

\* lines 22-27: the manifest is read
LoadManifest ==
  /\ pc = "load"
  /\ IF ~CanReadJsonSync(fs, projectConfigPath)
       THEN /\ Throw("config")
            /\ UNCHANGED locals
       ELSE /\ projectDependencies' = DependenciesOf(ReadJsonSync(fs, projectConfigPath))
            /\ depIndex' = 1
            /\ pc' = "phase1"
            /\ UNCHANGED <<extraIndex, projectPackageListing,
                           projectRedundantPackageNames, redundantIndex,
                           projectPackageScopes, scopeIndex, failure>>
  /\ UNCHANGED <<fs, validated, ops, history, fsPhase1>>

\* lines 39-68: the next dependency: marker, guard and version gate
CheckDependency ==
  /\ pc = "phase1"
  /\ depIndex <= Len(projectDependencies)
  /\ LET dependencyName == projectDependencies[depIndex]
         decision == DependencyDecision(fs, dependencyName)
     IN /\ validated' = IF decision \in {"error", "skip"} THEN validated
                        ELSE validated \cup {assetsTargetPath(dependencyName)}
        /\ CASE decision \in {"error", "broken"} ->
                  Throw("io") /\ UNCHANGED depIndex
             [] decision = "unsafe" ->
                  Throw("unsafe path") /\ UNCHANGED depIndex
             [] decision \in {"skip", "latest"} ->
                  depIndex' = depIndex + 1 /\ UNCHANGED <<pc, failure>>
             [] decision = "install" ->
                  pc' = "empty" /\ UNCHANGED <<depIndex, failure>>
  /\ UNCHANGED <<fs, projectDependencies, extraIndex, projectPackageListing,
                 projectRedundantPackageNames, redundantIndex, projectPackageScopes,
                 scopeIndex, ops, history, fsPhase1>>

\* line 73: the package directory is emptied
EmptyTarget ==
  /\ pc = "empty"
  /\ LET target == assetsTargetPath(projectDependencies[depIndex]) IN
     /\ ops' = Append(ops, Call("emptyDirSync", target))
     /\ IF CanEmptyDirSync(fs, target)
          THEN fs' = EmptyDirSync(fs, target) /\ pc' = "assets" /\ UNCHANGED failure
          ELSE Throw("io") /\ UNCHANGED fs
  /\ UNCHANGED <<locals, validated, history, fsPhase1>>

\* line 75: the asset files are copied
CopyAssets ==
  /\ pc = "assets"
  /\ LET dependencyName == projectDependencies[depIndex] IN
     /\ ops' = IF ExistsSync(fs, CopySource(dependencyName, "assets"))
                 THEN Append(ops, Call("copySync", CopyDestination(dependencyName, "")))
                 ELSE ops
     /\ IF CanCopyIfExistsSync(fs, dependencyName, "assets", "")
          THEN /\ fs' = copyIfExistsSync(fs, dependencyName, "assets", "")
               /\ pc' = "extras"
               /\ extraIndex' = 1
               /\ UNCHANGED failure
          ELSE Throw("io") /\ UNCHANGED <<fs, extraIndex>>
  /\ UNCHANGED <<projectDependencies, depIndex, projectPackageListing,
                 projectRedundantPackageNames, redundantIndex, projectPackageScopes,
                 scopeIndex, validated, history, fsPhase1>>

\* line 77: the next extra file is copied
CopyExtraFile ==
  /\ pc = "extras"
  /\ LET dependencyName == projectDependencies[depIndex]
         file == extraFiles[extraIndex]
     IN /\ ops' = IF ExistsSync(fs, CopySource(dependencyName, file))
                    THEN Append(ops, Call("copySync", CopyDestination(dependencyName, file)))
                    ELSE ops
        /\ IF CanCopyIfExistsSync(fs, dependencyName, file, file)
             THEN /\ fs' = copyIfExistsSync(fs, dependencyName, file, file)
                  /\ IF extraIndex < Len(extraFiles)
                       THEN extraIndex' = extraIndex + 1 /\ UNCHANGED <<pc, depIndex>>
                       ELSE /\ extraIndex' = 0
                            /\ depIndex' = depIndex + 1
                            /\ pc' = "phase1"
                  /\ UNCHANGED failure
             ELSE Throw("io") /\ UNCHANGED <<fs, extraIndex, depIndex>>
  /\ UNCHANGED <<projectDependencies, projectPackageListing,
                 projectRedundantPackageNames, redundantIndex, projectPackageScopes,
                 scopeIndex, validated, history, fsPhase1>>

\* (the listing of the packages directory as the run found it at its start)
ListRedundantAtStart ==
  /\ pc = "phase1"
  /\ depIndex > Len(projectDependencies)
  /\ projectPackageListing' =
       getProjectPackageListing(IF invocation = "first" THEN fs0 ELSE fsFirst)
  /\ projectRedundantPackageNames' =
       SelectSeq(projectPackageListing',
                 LAMBDA packageName : packageName \notin projectDependencyNames)
  /\ redundantIndex' = 1
  /\ pc' = "phase2"
  /\ fsPhase1' = fs
  /\ UNCHANGED <<fs, projectDependencies, depIndex, extraIndex, projectPackageScopes,
                 scopeIndex, failure, validated, ops, history>>

\* lines 97-98: the packages directory is listed, the redundant names kept
ListRedundant ==
  /\ pc = "phase1"
  /\ depIndex > Len(projectDependencies)
  /\ IF CanReaddirSync(fs, projectPackagesDir)
       THEN /\ projectPackageListing' = getProjectPackageListing(fs)
            /\ projectRedundantPackageNames' =
                 SelectSeq(projectPackageListing',
                           LAMBDA packageName : packageName \notin projectDependencyNames)
            /\ redundantIndex' = 1
            /\ pc' = "phase2"
            /\ UNCHANGED failure
       ELSE /\ Throw("io")
            /\ UNCHANGED <<projectPackageListing, projectRedundantPackageNames,
                           redundantIndex>>
  /\ fsPhase1' = fs
  /\ UNCHANGED <<fs, projectDependencies, depIndex, extraIndex, projectPackageScopes,
                 scopeIndex, validated, ops, history>>

redundantPackageDir(redundantPackageName) ==
  PathResolve(projectPackagesDir, redundantPackageName)
\* (the suffix without its dot)
redundantPackageMetaPathNoDot(redundantPackageName) ==
  PathResolve(projectPackagesDir, redundantPackageName \o "meta")
\* (the .meta file of the first segment of the name: of the scope)
redundantPackageMetaPathOfScope(redundantPackageName) ==
  PathResolve(projectPackagesDir, Segments(redundantPackageName)[1] \o ".meta")
redundantPackageMetaPath(redundantPackageName) ==
  PathResolve(projectPackagesDir, redundantPackageName \o ".meta")

\* lines 100-109: the directory of the next redundant package is removed
RemovePackage ==
  /\ pc = "phase2"
  /\ redundantIndex <= Len(projectRedundantPackageNames)
  /\ LET dir == redundantPackageDir(projectRedundantPackageNames[redundantIndex]) IN
     /\ validated' = validated \cup {dir}
     /\ IF ~validateProjectPackageDirectory(dir)
          THEN Throw("unsafe path") /\ UNCHANGED <<fs, ops>>
          ELSE /\ pc' = "phase2meta"
               /\ UNCHANGED failure
               /\ IF ExistsSync(fs, dir)
                    THEN /\ fs' = RemoveSync(fs, dir)
                         /\ ops' = Append(ops, Call("removeSync", dir))
                    ELSE UNCHANGED <<fs, ops>>
  /\ UNCHANGED <<locals, history, fsPhase1>>

\* lines 111-113: its .meta file is removed
RemovePackageMeta ==
  /\ pc = "phase2meta"
  /\ LET meta == redundantPackageMetaPath(projectRedundantPackageNames[redundantIndex]) IN
     IF ~ExistsSync(fs, meta)
       THEN /\ pc' = "phase2"
            /\ redundantIndex' = redundantIndex + 1
            /\ UNCHANGED <<fs, ops, failure>>
       ELSE /\ ops' = Append(ops, Call("unlinkSync", meta))
            /\ IF CanUnlinkSync(fs, meta)
                 THEN /\ fs' = UnlinkSync(fs, meta)
                      /\ pc' = "phase2"
                      /\ redundantIndex' = redundantIndex + 1
                      /\ UNCHANGED failure
                 ELSE Throw("io") /\ UNCHANGED <<fs, redundantIndex>>
  /\ UNCHANGED <<projectDependencies, depIndex, extraIndex, projectPackageListing,
                 projectRedundantPackageNames, projectPackageScopes, scopeIndex,
                 validated, history, fsPhase1>>

\* line 121: the scope directories are listed
ListScopes ==
  /\ pc = "phase2"
  /\ redundantIndex > Len(projectRedundantPackageNames)
  /\ IF CanReaddirSync(fs, projectPackagesDir)
       THEN /\ projectPackageScopes' = getProjectPackageScopes(fs)
            /\ scopeIndex' = 1
            /\ pc' = "phase3"
            /\ UNCHANGED failure
       ELSE Throw("io") /\ UNCHANGED <<projectPackageScopes, scopeIndex>>
  /\ UNCHANGED <<fs, projectDependencies, depIndex, extraIndex, projectPackageListing,
                 projectRedundantPackageNames, redundantIndex, validated, ops, history,
                 fsPhase1>>

projectPackageScopeDir(projectPackageScope) ==
  PathResolve(projectPackagesDir, projectPackageScope)
projectPackageScopeMeta(projectPackageScope) ==
  PathResolve(projectPackagesDir, projectPackageScope \o ".meta")

\* lines 121-128: the next scope directory is removed when it is empty
PruneScope ==
  /\ pc = "phase3"
  /\ scopeIndex <= Len(projectPackageScopes)
  /\ LET dir == projectPackageScopeDir(projectPackageScopes[scopeIndex]) IN
     /\ validated' = validated \cup {dir}
     /\ IF ~validateProjectPackageDirectory(dir)
          THEN Throw("unsafe path") /\ UNCHANGED <<fs, ops, scopeIndex>>
          ELSE IF IsEmptySync(fs, dir)
            THEN /\ fs' = RemoveSync(fs, dir)
                 /\ ops' = ops \o <<Call("isEmptySync", dir), Call("removeSync", dir)>>
                 /\ pc' = "phase3meta"
                 /\ UNCHANGED <<scopeIndex, failure>>
            ELSE /\ ops' = Append(ops, Call("isEmptySync", dir))
                 /\ scopeIndex' = scopeIndex + 1
                 /\ UNCHANGED <<fs, pc, failure>>
  /\ UNCHANGED <<projectDependencies, depIndex, extraIndex, projectPackageListing,
                 projectRedundantPackageNames, redundantIndex, projectPackageScopes,
                 history, fsPhase1>>

\* lines 129-131: the .meta file of the removed scope directory is removed
PruneScopeMeta ==
  /\ pc = "phase3meta"
  /\ LET meta == projectPackageScopeMeta(projectPackageScopes[scopeIndex]) IN
     IF ~ExistsSync(fs, meta)
       THEN /\ pc' = "phase3"
            /\ scopeIndex' = scopeIndex + 1
            /\ UNCHANGED <<fs, ops, failure>>
       ELSE /\ ops' = Append(ops, Call("unlinkSync", meta))
            /\ IF CanUnlinkSync(fs, meta)
                 THEN /\ fs' = UnlinkSync(fs, meta)
                      /\ pc' = "phase3"
                      /\ scopeIndex' = scopeIndex + 1
                      /\ UNCHANGED failure
                 ELSE Throw("io") /\ UNCHANGED <<fs, scopeIndex>>
  /\ UNCHANGED <<projectDependencies, depIndex, extraIndex, projectPackageListing,
                 projectRedundantPackageNames, redundantIndex, projectPackageScopes,
                 validated, history, fsPhase1>>

\* the end of the script: the process exits with status zero
Finish ==
  /\ pc = "phase3"
  /\ scopeIndex > Len(projectPackageScopes)
  /\ pc' = "done"
  /\ UNCHANGED <<fs, locals, failure, validated, ops, history, fsPhase1>>

\* a call of the file system fails for a reason outside the model (the disk,
\* a permission), or the process is stopped: the run ends where it is
Fail ==
  /\ pc \notin {"done", "aborted"}
  /\ invocation = "first"
  /\ Throw("interrupted")
  /\ UNCHANGED <<fs, locals, validated, ops, history, fsPhase1>>

\* sync.js is invoked again, on the file system the first run left
Rerun ==
  /\ pc \in {"done", "aborted"}
  /\ invocation = "first"
  /\ invocation' = "rerun"
  /\ interrupted' = (pc = "aborted")
  /\ fsFirst' = fs
  /\ pc' = "load"
  /\ projectDependencies' = <<>>
  /\ depIndex' = 0
  /\ extraIndex' = 0
  /\ projectPackageListing' = <<>>
  /\ projectRedundantPackageNames' = <<>>
  /\ redundantIndex' = 0
  /\ projectPackageScopes' = <<>>
  /\ scopeIndex' = 0
  /\ failure' = "none"
  /\ validated' = {}
  /\ ops' = <<>>
  /\ fsPhase1' = fs
  /\ UNCHANGED <<fs, fs0>>

Next ==
  \/ LoadManifest
  \/ CheckDependency
  \/ EmptyTarget
  \/ CopyAssets
  \/ CopyExtraFile
  \/ ListRedundant
  \/ RemovePackage
  \/ RemovePackageMeta
  \/ ListScopes
  \/ PruneScope
  \/ PruneScopeMeta
  \/ Finish
  \/ Fail
  \/ Rerun

Spec == Init /\ [][Next]_vars

-----------------------------------------------------------------------------
(* The whole run as a function of the file system it starts from: what an   *)
(* uninterrupted run of sync.js leaves, and whether it reached its end.     *)

Ok(f) == [ok |-> TRUE, fs |-> f]
Failed(f) == [ok |-> FALSE, fs |-> f]

\* the next call of a run: it throws unless can holds, and gives done
Attempt(r, can, done) ==
  IF ~r.ok THEN r ELSE IF can THEN Ok(done) ELSE Failed(r.fs)

\* lines 39-90 for one dependency
InstallDependency(f, dependencyName) ==
  LET decision == DependencyDecision(f, dependencyName)
      target == assetsTargetPath(dependencyName)
      copy(r, file, to) ==
        Attempt(r, CanCopyIfExistsSync(r.fs, dependencyName, file, to),
                   copyIfExistsSync(r.fs, dependencyName, file, to))
      emptied == Attempt(Ok(f), CanEmptyDirSync(f, target), EmptyDirSync(f, target))
  IN IF decision \in {"skip", "latest"} THEN Ok(f)
     ELSE IF decision # "install" THEN Failed(f)
     ELSE copy(copy(copy(copy(emptied, "assets", ""),
                         extraFiles[1], extraFiles[1]),
                    extraFiles[2], extraFiles[2]),
               extraFiles[3], extraFiles[3])

\* lines 39-90
RECURSIVE InstallPhase(_, _)
InstallPhase(r, dependencies) ==
  IF ~r.ok \/ dependencies = <<>> THEN r
  ELSE InstallPhase(InstallDependency(r.fs, Head(dependencies)), Tail(dependencies))

\* lines 100-114 for one redundant package
RemoveRedundant(f, redundantPackageName) ==
  LET dir == redundantPackageDir(redundantPackageName)
      meta == redundantPackageMetaPath(redundantPackageName)
      removed == IF ExistsSync(f, dir) THEN RemoveSync(f, dir) ELSE f
  IN IF ~validateProjectPackageDirectory(dir) THEN Failed(f)
     ELSE IF ~ExistsSync(removed, meta) THEN Ok(removed)
     ELSE IF CanUnlinkSync(removed, meta) THEN Ok(UnlinkSync(removed, meta))
     ELSE Failed(removed)

\* lines 121-133 for one scope directory
PruneScopeDirectory(f, projectPackageScope) ==
  LET dir == projectPackageScopeDir(projectPackageScope)
      meta == projectPackageScopeMeta(projectPackageScope)
      removed == RemoveSync(f, dir)
  IN IF ~validateProjectPackageDirectory(dir) THEN Failed(f)
     ELSE IF ~IsEmptySync(f, dir) THEN Ok(f)
     ELSE IF ~ExistsSync(removed, meta) THEN Ok(removed)
     ELSE IF CanUnlinkSync(removed, meta) THEN Ok(UnlinkSync(removed, meta))
     ELSE Failed(removed)

\* lines 100-114: the loop, ended by the first call that throws
RECURSIVE RemoveAll(_, _)
RemoveAll(r, names) ==
  IF ~r.ok \/ names = <<>> THEN r
  ELSE RemoveAll(RemoveRedundant(r.fs, Head(names)), Tail(names))

\* lines 121-133: the loop, ended by the first call that throws
RECURSIVE PruneAll(_, _)
PruneAll(r, scopes) ==
  IF ~r.ok \/ scopes = <<>> THEN r
  ELSE PruneAll(PruneScopeDirectory(r.fs, Head(scopes)), Tail(scopes))

\* lines 97-114
RemovePhase(r, dependencies) ==
  IF ~r.ok THEN r
  ELSE IF ~CanReaddirSync(r.fs, projectPackagesDir) THEN Failed(r.fs)
  ELSE RemoveAll(r, SelectSeq(getProjectPackageListing(r.fs),
                              LAMBDA packageName : packageName \notin Range(dependencies)))

\* lines 121-133
PrunePhase(r) ==
  IF ~r.ok THEN r
  ELSE IF ~CanReaddirSync(r.fs, projectPackagesDir) THEN Failed(r.fs)
  ELSE PruneAll(r, getProjectPackageScopes(r.fs))

\* sync.js from its first line to its last
Sync(f) ==
  IF ~CanReadJsonSync(f, projectConfigPath) THEN Failed(f)
  ELSE LET dependencies == DependenciesOf(ReadJsonSync(f, projectConfigPath))
       IN PrunePhase(RemovePhase(InstallPhase(Ok(f), dependencies), dependencies))

-----------------------------------------------------------------------------
(* What the claims speak of.                                                *)

\* the calls that delete, and the emptiness test
Destructive == {"emptyDirSync", "removeSync", "unlinkSync", "isEmptySync"}
\* the calls that change the file system
Mutating == {"emptyDirSync", "copySync", "removeSync", "unlinkSync"}

\* the string of the path holds Assets/Plugins/Packages
HoldsPackagesPath(path) ==
  LET s == PathString(path)
      n == Len("Assets/Plugins/Packages")
  IN \E k \in 1..(Len(s) - n + 1) : SubSeq(s, k, k + n - 1) = "Assets/Plugins/Packages"

\* the call touches path or something beneath it
Touches(call, path) == Within(call.path, path)

\* the names the manifest of file system f declares
Declared(f) ==
  IF IsFile(f, projectConfigPath) /\ "dependencies" \in DOMAIN f[projectConfigPath].data
    THEN { f[projectConfigPath].data.dependencies[k] :
             k \in DOMAIN f[projectConfigPath].data.dependencies }
    ELSE {}

\* a name without a slash that is no scope, and a name @scope/name
FlatName(name) ==
  /\ Len(name) > 0
  /\ SlashFrom(name, 1) > Len(name)
  /\ SubSeq(name, 1, 1) \notin {"@", "."}
ScopedName(name) ==
  LET slash == SlashFrom(name, 1) IN
  /\ SubSeq(name, 1, 1) = "@"
  /\ slash > 2
  /\ slash < Len(name)
  /\ SlashFrom(name, slash + 1) > Len(name)
  /\ SubSeq(name, slash + 1, slash + 1) # "."
PackageName(name) == FlatName(name) \/ ScopedName(name)

\* the file system this run started from
fsStart == IF invocation = "first" THEN fs0 ELSE fsFirst

\* what file system f holds at path and beneath it
Subtree(f, path) == [q \in { q \in DOMAIN f : Within(q, path) } |-> f[q]]

\* the calls of this run at path or beneath it, in order
CallsAt(path) == SelectSeq(ops, LAMBDA call : Touches(call, path))

\* the directory a dependency is installed in, and that of its source
TargetOf(name) == PathResolve(projectPackagesDir, name)
SourceOf(name) == PathJoin(PathJoin(projectRootDir, "node_modules"), name)

\* the source of the dependency carries the keyword unity3d-package
Marked(f, name) ==
  LET config == Append(SourceOf(name), "package.json") IN
  /\ IsFile(f, config)
  /\ "keywords" \in DOMAIN f[config].data
  /\ "unity3d-package" \in f[config].data.keywords

\* the version in a package.json of f, as a sequence of at most one string
VersionAt(f, dir) ==
  LET config == Append(dir, "package.json") IN
  IF "version" \in DOMAIN f[config].data THEN <<f[config].data.version>> ELSE <<>>

\* f holds the dependency installed with the version of its source
UpToDate(f, name) ==
  /\ IsFile(f, Append(TargetOf(name), "package.json"))
  /\ VersionAt(f, TargetOf(name)) = VersionAt(f, SourceOf(name))

\* the calls of a full replace of the dependency: the directory emptied,
\* the assets copied, then each extra file the source holds
ReplaceCalls(f, name) ==
  LET extra(file) == IF Append(SourceOf(name), file) \in DOMAIN f
                       THEN <<Call("copySync", Append(TargetOf(name), file))>>
                       ELSE <<>>
  IN <<Call("emptyDirSync", TargetOf(name))>>
       \o (IF Append(SourceOf(name), "assets") \in DOMAIN f
             THEN <<Call("copySync", TargetOf(name))>> ELSE <<>>)
       \o extra("package.json") \o extra("README.md") \o extra("LICENSE")

\* the positions of Phase 1
Phase1 == {"phase1", "empty", "assets", "extras"}

\* the dependencies Phase 1 has dealt with
Handled == { projectDependencies[k] : k \in 1..(depIndex - 1) }

\* the positions after Phase 1, up to the end of the script
AfterPhase1 == {"phase2", "phase2meta", "phase3", "phase3meta", "done"}

\* Phase 2 has removed the last redundant package
Phase2Done == pc = "phase2" /\ redundantIndex > Len(projectRedundantPackageNames)

\* the packages in the packages directory of f, by name: the directories
\* there that are no scope, and the directories in the scope directories
IsScope(segment) == SubSeq(segment, 1, 1) = "@"
Entries(f) ==
  LET n == Len(projectPackagesDir) IN
  { q[n + 1] : q \in { q \in DOMAIN f : /\ Under(q, projectPackagesDir)
                                        /\ Len(q) = n + 1
                                        /\ f[q].type = "dir"
                                        /\ ~IsScope(q[n + 1]) } }
    \cup
  { q[n + 1] \o "/" \o q[n + 2] :
      q \in { q \in DOMAIN f : /\ Under(q, projectPackagesDir)
                               /\ Len(q) = n + 2
                               /\ f[q].type = "dir"
                               /\ IsScope(q[n + 1]) } }
ScopedEntry(name) == IsScope(name)

\* the directory of a package of the packages directory and its .meta file
EntryDir(name) == projectPackagesDir \o Segments(name)
EntryMeta(name) == projectPackagesDir \o Segments(name \o ".meta")

\* the scope directories of f, by name
Scopes(f) ==
  LET n == Len(projectPackagesDir) IN
  { q[n + 1] : q \in { q \in DOMAIN f : /\ Under(q, projectPackagesDir)
                                        /\ Len(q) = n + 1
                                        /\ f[q].type = "dir"
                                        /\ IsScope(q[n + 1]) } }

\* the run changes nothing: no copy, no delete
NothingChanged == \A k \in DOMAIN ops : ops[k].op \notin Mutating

-----------------------------------------------------------------------------
(* C1: every path handed to emptyDirSync, removeSync, unlinkSync or         *)
(* isEmptySync holds Assets/Plugins/Packages as a substring, and a path     *)
(* handed to the guard that does not hold it ends the run with the guard's  *)
(* error before any call deletes at that path.                              *)
C1_DeletedPathsHoldPackagesPath ==
  /\ \A k \in DOMAIN ops :
       ops[k].op \in Destructive => HoldsPackagesPath(ops[k].path)
  /\ \A path \in validated :
       ~HoldsPackagesPath(path) =>
         /\ pc = "aborted"
         /\ failure = "unsafe path"
         /\ \A k \in DOMAIN ops : ~Touches(ops[k], path)

\* the guard has stopped a run that had already replaced a package
C1_Witness ==
  /\ failure = "unsafe path"
  /\ \E path \in validated : ~HoldsPackagesPath(path)
  /\ \E k \in DOMAIN ops : ops[k].op = "emptyDirSync"

-----------------------------------------------------------------------------
(* C2: every call that changes the file system (emptyDirSync, copySync,     *)
(* removeSync, unlinkSync) is made on a path inside the packages directory  *)
(* <cwd>/Assets/Plugins/Packages.                                           *)
C2_MutationsInsidePackagesDir ==
  \A k \in DOMAIN ops :
    ops[k].op \in Mutating => Within(ops[k].path, projectPackagesDir)

-----------------------------------------------------------------------------
(* C3 as stated: after a first run that reached its end, a second run on    *)
(* the same manifest and sources leaves the file system as the first run    *)
(* left it, and makes no copy and no delete.                                *)
C3_SecondRunChangesNothing ==
  (invocation = "rerun" /\ ~interrupted) => (fs = fsFirst /\ NothingChanged)

(* C3 as amended: the same, for the manifests whose dependency names are    *)
(* flat or of the form @scope/name; the second run then also ends without   *)
(* an error.                                                                *)
C3_SecondRunChangesNothingForPackageNames ==
  (/\ invocation = "rerun"
   /\ ~interrupted
   /\ \A name \in Declared(fs0) : PackageName(name))
    => (fs = fsFirst /\ NothingChanged /\ pc # "aborted")

\* a second run has ended, after a first run that installed a package and
\* removed another
C3_Witness ==
  /\ invocation = "rerun"
  /\ ~interrupted
  /\ pc = "done"
  /\ depIndex > 1
  /\ \A name \in Declared(fs0) : PackageName(name)
  /\ \E name \in Declared(fs0) :
       /\ DependencyDecision(fs0, name) = "install"
       /\ DependencyDecision(fs, name) = "latest"
  /\ \E path \in DOMAIN fs0 : Under(path, projectPackagesDir) /\ path \notin DOMAIN fs

-----------------------------------------------------------------------------
(* C4: when the first run was ended before its last call and sync.js is     *)
(* invoked again, the second run leaves the file system an uninterrupted    *)
(* run would have left.                                                     *)
C4_RerunRecovers ==
  (invocation = "rerun" /\ interrupted /\ pc = "done" /\ Sync(fs0).ok)
    => fs = Sync(fs0).fs

-----------------------------------------------------------------------------
(* C5: Phase 1 leaves a marked dependency alone (no call at its directory,  *)
(* the directory as it was) when the installed package.json has exactly the *)
(* version string of the source, and replaces it in full (emptyDirSync,     *)
(* the assets, the extra files) when the installed package.json is missing  *)
(* or has another version string, as 1.0 for 1.0.0.                         *)
C5_VersionGate ==
  pc \in Phase1 =>
    \A name \in Handled :
      Marked(fs, name) =>
        IF UpToDate(fsStart, name)
          THEN /\ CallsAt(TargetOf(name)) = <<>>
               /\ Subtree(fs, TargetOf(name)) = Subtree(fsStart, TargetOf(name))
          ELSE CallsAt(TargetOf(name)) = ReplaceCalls(fs, name)

\* Phase 1 has left one dependency alone and has replaced another, which
\* was installed with version 1.0 for the 1.0.0 of the source
C5_Witness ==
  /\ pc = "phase1"
  /\ depIndex > Len(projectDependencies)
  /\ \E name \in Handled : Marked(fs, name) /\ UpToDate(fsStart, name)
  /\ \E name \in Handled :
       /\ Marked(fs, name)
       /\ IsFile(fsStart, Append(TargetOf(name), "package.json"))
       /\ VersionAt(fsStart, TargetOf(name)) = <<"1.0">>
       /\ VersionAt(fsStart, SourceOf(name)) = <<"1.0.0">>
       /\ CallsAt(TargetOf(name)) # <<>>

-----------------------------------------------------------------------------
(* C6: in a run on a manifest whose names are flat or of the form           *)
(* @scope/name, once Phase 1 is over every marked dependency is installed   *)
(* with the version of its source, and Phases 2 and 3 leave its directory   *)
(* as Phase 1 left it, up to the end of the run.                            *)
C6_InstalledStayInstalled ==
  (pc \in AfterPhase1 /\ \A name \in Declared(fs) : PackageName(name)) =>
    \A name \in Declared(fs) :
      Marked(fs, name) =>
        /\ UpToDate(fs, name)
        /\ Subtree(fs, TargetOf(name)) = Subtree(fsPhase1, TargetOf(name))

\* a run has ended that installed a marked dependency and removed a package
C6_Witness ==
  /\ pc = "done"
  /\ \A name \in Declared(fs) : PackageName(name)
  /\ \E name \in Declared(fs) : Marked(fs, name) /\ CallsAt(TargetOf(name)) # <<>>
  /\ \E k \in DOMAIN ops : ops[k].op = "removeSync"

-----------------------------------------------------------------------------
(* C7: when Phase 2 is over, the packages left in the packages directory    *)
(* are the listed packages that the manifest declares, and a listed package *)
(* that it does not declare has neither its directory nor its .meta file.   *)
C7_RedundantRemoved ==
  Phase2Done =>
    /\ Entries(fs) = Range(projectPackageListing) \cap Declared(fs)
    /\ \A name \in Range(projectPackageListing) \ Declared(fs) :
         /\ EntryDir(name) \notin DOMAIN fs
         /\ EntryMeta(name) \notin DOMAIN fs

\* Phase 2 has kept a declared package and removed another with its .meta
C7_Witness ==
  /\ Phase2Done
  /\ Range(projectPackageListing) \cap Declared(fs) # {}
  /\ \E name \in Range(projectPackageListing) \ Declared(fs) :
       EntryMeta(name) \in DOMAIN fsPhase1

-----------------------------------------------------------------------------
(* C8: Phase 2 keeps the package in @org/foo exactly when the manifest      *)
(* declares the string @org/foo (a declared foo, or a declared foo of       *)
(* another scope, does not keep it); a step that removes a package of a     *)
(* scope leaves every package outside the scopes as it is, and a step that  *)
(* removes a package outside the scopes leaves the scope directories as     *)
(* they are.                                                                *)
C8_ScopedKeptIffDeclared ==
  Phase2Done =>
    \A name \in Entries(fsPhase1) :
      ScopedEntry(name) => (EntryDir(name) \in DOMAIN fs <=> name \in Declared(fs))

C8_RemovalStaysInItsKind ==
  (pc \in {"phase2", "phase2meta"} /\ ~Phase2Done) =>
    LET removed == projectRedundantPackageNames[redundantIndex] IN
    \A path \in DOMAIN fs :
      (/\ Under(path, projectPackagesDir)
       /\ IsScope(path[Len(projectPackagesDir) + 1]) # ScopedEntry(removed))
        => (path \in DOMAIN fs' /\ fs'[path] = fs[path])

C8_ScopedNames == []C8_ScopedKeptIffDeclared /\ [][C8_RemovalStaysInItsKind]_vars

\* Phase 2 is over: it has removed @org/foo though foo is declared, has
\* removed the foo of another scope, and has kept the declared foo
C8_Witness ==
  /\ Phase2Done
  /\ "foo" \in Declared(fs)
  /\ "@org/foo" \notin Declared(fs)
  /\ {"@org/foo", "foo"} \subseteq Entries(fsPhase1)
  /\ EntryDir("@org/foo") \notin DOMAIN fs
  /\ EntryDir("foo") \in DOMAIN fs

-----------------------------------------------------------------------------
(* C9: at the end of the run a scope directory that held nothing but        *)
(* packages Phase 2 removed (and their .meta files) is gone with its .meta  *)
(* file, and a scope directory that held a declared package still stands    *)
(* with its .meta file, and with all that Phase 2 did not remove.           *)
OnlyRedundant(scope) ==
  \A path \in DOMAIN fsPhase1 :
    Under(path, EntryDir(scope)) =>
      \E name \in Range(projectRedundantPackageNames) :
        Within(path, EntryDir(name)) \/ path = EntryMeta(name)

HoldsDeclared(scope) ==
  \E name \in Entries(fsPhase1) \cap Declared(fs) : Under(EntryDir(name), EntryDir(scope))

C9_EmptyScopesPruned ==
  pc = "done" =>
    \A scope \in Scopes(fsPhase1) :
      /\ OnlyRedundant(scope) =>
           /\ EntryDir(scope) \notin DOMAIN fs
           /\ EntryMeta(scope) \notin DOMAIN fs
      /\ HoldsDeclared(scope) =>
           /\ IsDirectory(fs, EntryDir(scope))
           /\ EntryMeta(scope) \in DOMAIN fsPhase1 =>
                /\ EntryMeta(scope) \in DOMAIN fs
                /\ fs[EntryMeta(scope)] = fsPhase1[EntryMeta(scope)]
           /\ \A path \in DOMAIN fsPhase1 :
                (/\ Under(path, EntryDir(scope))
                 /\ \A name \in Range(projectRedundantPackageNames) :
                      ~Within(path, EntryDir(name)) /\ path # EntryMeta(name))
                  => (path \in DOMAIN fs /\ fs[path] = fsPhase1[path])

\* the run has ended: a scope whose only package was removed is gone with
\* its .meta file
C9_Witness ==
  /\ pc = "done"
  /\ \E scope \in Scopes(fsPhase1) :
       /\ OnlyRedundant(scope)
       /\ Cardinality({ name \in Entries(fsPhase1) :
                          Under(EntryDir(name), EntryDir(scope)) }) = 1
       /\ EntryMeta(scope) \in DOMAIN fsPhase1
       /\ EntryDir(scope) \notin DOMAIN fs

-----------------------------------------------------------------------------
(* C10 as stated: after a full replace, an extra file that the root of the  *)
(* source lacks is not in the installed package.                            *)
Replaced == { name \in Handled : CallsAt(TargetOf(name)) # <<>> }

C10_MissingExtraNotInstalled ==
  pc \in Phase1 =>
    \A name \in Replaced :
      \A k \in DOMAIN extraFiles :
        Append(SourceOf(name), extraFiles[k]) \notin DOMAIN fs
          => Append(TargetOf(name), extraFiles[k]) \notin DOMAIN fs

(* C10 as amended: the same for an extra file that neither the root of the  *)
(* source nor its assets directory holds; and the copy of an extra file     *)
(* fails only for a file that the source holds.                             *)
C10_MissingExtraNotInstalledUnlessAsset ==
  /\ pc \in Phase1 =>
       \A name \in Replaced :
         \A k \in DOMAIN extraFiles :
           (/\ Append(SourceOf(name), extraFiles[k]) \notin DOMAIN fs
            /\ Append(Append(SourceOf(name), "assets"), extraFiles[k]) \notin DOMAIN fs)
             => Append(TargetOf(name), extraFiles[k]) \notin DOMAIN fs
  /\ (pc = "aborted" /\ failure = "io" /\ extraIndex >= 1) =>
       Append(SourceOf(projectDependencies[depIndex]), extraFiles[extraIndex])
         \in DOMAIN fs

\* a package that held a LICENSE has been replaced from a source without
\* LICENSE and without README.md
C10_Witness ==
  /\ pc \in Phase1
  /\ \E name \in Replaced :
       /\ Append(SourceOf(name), "LICENSE") \notin DOMAIN fs
       /\ Append(SourceOf(name), "README.md") \notin DOMAIN fs
       /\ Append(TargetOf(name), "LICENSE") \in DOMAIN fsStart
       /\ Append(TargetOf(name), "LICENSE") \notin DOMAIN fs

-----------------------------------------------------------------------------
(* C11: a fatal condition (the guard's error, an error of a file system     *)
(* call) ends the run as aborted; the step that meets it changes no file    *)
(* and moves no loop forward, and an aborted run takes no further step: the *)
(* only thing that follows is another invocation of the script, which       *)
(* starts from the files the aborted run left.                              *)
C11_FatalIsAborted == failure # "none" => pc = "aborted"

C11_FailingStepChangesNothing ==
  (pc # "aborted" /\ pc' = "aborted") => UNCHANGED <<fs, locals>>

C11_AbortedRunStops ==
  pc = "aborted" => (invocation' # invocation /\ pc' = "load" /\ fs' = fs)

C11_FailStop ==
  /\ []C11_FatalIsAborted
  /\ [][C11_FailingStepChangesNothing]_vars
  /\ [][C11_AbortedRunStops]_vars

\* a run that had replaced a package has been ended by an unreadable
\* package.json of the next dependency, before Phase 2
C11_Witness ==
  /\ pc = "aborted"
  /\ failure = "io"
  /\ \E k \in DOMAIN ops : ops[k].op = "copySync"
  /\ depIndex = Len(projectDependencies)
  /\ projectPackageListing = <<>>

-----------------------------------------------------------------------------
(* C12: a run that finds no manifest, or one that is no JSON, is aborted    *)
(* as soon as it has tried to read it: it has made no call that clears,     *)
(* copies or deletes, has guarded no path, and the files are those it       *)
(* started from.                                                            *)
ManifestReadable(f) ==
  IsFile(f, projectConfigPath) /\ "text" \notin DOMAIN f[projectConfigPath].data

C12_NoManifestNoMutation ==
  (pc # "load" /\ ~ManifestReadable(fsStart)) =>
    /\ pc = "aborted"
    /\ ops = <<>>
    /\ validated = {}
    /\ fs = fsStart

\* a run on a manifest that is no JSON has been aborted beside installed
\* packages
C12_Witness ==
  /\ pc = "aborted"
  /\ failure = "config"
  /\ projectConfigPath \in DOMAIN fs
  /\ Entries(fs) # {}

-----------------------------------------------------------------------------
(* C13 as stated: every path handed to emptyDirSync, removeSync, unlinkSync *)
(* or isEmptySync has itself been handed to the guard before, in the same   *)
(* run; the .meta paths handed to unlinkSync too.                           *)
C13_EveryDeletedPathGuarded ==
  \A k \in DOMAIN ops :
    ops[k].op \in Destructive => ops[k].path \in validated

(* C13 as amended: every directory path handed to emptyDirSync, removeSync  *)
(* or isEmptySync has itself been handed to the guard before; a path handed *)
(* to unlinkSync is a guarded directory path with .meta appended.           *)
SidecarOf(dir) == SubSeq(dir, 1, Len(dir) - 1) \o <<dir[Len(dir)] \o ".meta">>

C13_EveryDeletedDirectoryGuarded ==
  \A k \in DOMAIN ops :
    /\ ops[k].op \in Destructive \ {"unlinkSync"} => ops[k].path \in validated
    /\ ops[k].op = "unlinkSync" =>
         \E dir \in validated : dir # <<>> /\ ops[k].path = SidecarOf(dir)

\* the run has ended: it has emptied a package directory and has removed a
\* .meta file of a package and one of a scope, neither handed to the guard
C13_Witness ==
  /\ pc = "done"
  /\ \E k \in DOMAIN ops : ops[k].op = "emptyDirSync"
  /\ \E k \in DOMAIN ops, scope \in Scopes(fsStart) :
       /\ ops[k] = Call("unlinkSync", EntryMeta(scope))
       /\ ops[k].path \notin validated
  /\ \E k \in DOMAIN ops, name \in Entries(fsStart) :
       /\ ops[k] = Call("unlinkSync", EntryMeta(name))
       /\ ops[k].path \notin validated

-----------------------------------------------------------------------------
(* C14: when Phase 1 has just replaced a package, its directory holds what  *)
(* the assets directory of the source holds, and over it the extra files    *)
(* that the root of the source holds, and nothing else: nothing of what the *)
(* directory held before.                                                   *)
ReplacedTree(f, name) ==
  LET assets == Append(SourceOf(name), "assets")
      extras == { file \in Range(extraFiles) : Append(SourceOf(name), file) \in DOMAIN f }
      below(q) == SubSeq(q, Len(assets) + 1, Len(q))
      rest(path) == SubSeq(path, Len(TargetOf(name)) + 1, Len(path))
      paths == {TargetOf(name)}
                 \cup { TargetOf(name) \o below(q) : q \in { q \in DOMAIN f : Under(q, assets) } }
                 \cup { Append(TargetOf(name), file) : file \in extras }
  IN [path \in paths |->
        IF path = TargetOf(name) THEN Dir
        ELSE IF Len(rest(path)) = 1 /\ rest(path)[1] \in extras
          THEN f[SourceOf(name) \o rest(path)]
          ELSE f[assets \o rest(path)]]

JustReplaced ==
  IF pc = "phase1" /\ depIndex > 1
       /\ \E k \in DOMAIN ops :
            ops[k] = Call("emptyDirSync", TargetOf(projectDependencies[depIndex - 1]))
    THEN {projectDependencies[depIndex - 1]} ELSE {}

C14_ReplaceIsNoMerge ==
  \A name \in JustReplaced :
    Subtree(fs, TargetOf(name)) = ReplacedTree(fs, name)

\* a package that held a file the source lacks has been replaced from a
\* source with a directory in its assets, and with a README.md in its
\* assets and another at its root
C14_Witness ==
  \E name \in JustReplaced :
    /\ Append(TargetOf(name), "old.txt") \in DOMAIN fsStart
    /\ Append(TargetOf(name), "old.txt") \notin DOMAIN fs
    /\ TargetOf(name) \o <<"Editor", "e.cs">> \in DOMAIN fs
    /\ SourceOf(name) \o <<"assets", "README.md">> \in DOMAIN fs
    /\ fs[SourceOf(name) \o <<"assets", "README.md">>] # fs[Append(SourceOf(name), "README.md")]
    /\ fs[Append(TargetOf(name), "README.md")] = fs[Append(SourceOf(name), "README.md")]

-----------------------------------------------------------------------------
(* C15: a run goes through Load, Phase 1, Phase 2, Phase 3 and the end in   *)
(* this order, never back and never past a phase; it leaves Phase 1 when    *)
(* every dependency is dealt with, Phase 2 when every redundant package is, *)
(* Phase 3 when every scope is; the calls it makes are in the order of the  *)
(* phases; and the packages Phase 2 lists, and the scopes Phase 3 lists,    *)
(* are those of the files as the phase before has left them.                *)
Rank(position) ==
  CASE position = "load" -> 0
    [] position \in Phase1 -> 1
    [] position \in {"phase2", "phase2meta"} -> 2
    [] position \in {"phase3", "phase3meta"} -> 3
    [] position = "done" -> 4
    [] position = "aborted" -> 5

\* the phase a call belongs to: Phase 1 empties and copies, Phase 3 tests
\* for emptiness and removes scope directories and their .meta files
CallRank(call) ==
  LET n == Len(projectPackagesDir) IN
  IF call.op \in {"emptyDirSync", "copySync"} THEN 1
  ELSE IF call.op = "isEmptySync" THEN 3
  ELSE IF Under(call.path, projectPackagesDir) /\ Len(call.path) = n + 1
            /\ IsScope(call.path[n + 1]) THEN 3
  ELSE 2

C15_CallsInPhaseOrder ==
  /\ \A j, k \in DOMAIN ops : j < k => CallRank(ops[j]) <= CallRank(ops[k])
  /\ \A k \in DOMAIN ops : CallRank(ops[k]) <= Rank(pc)

C15_PhasesInOrder ==
  (invocation' = invocation) =>
    /\ Rank(pc') >= Rank(pc)
    /\ pc' # "aborted" => Rank(pc') <= Rank(pc) + 1
    /\ (Rank(pc) = 1 /\ Rank(pc') = 2) =>
         /\ depIndex > Len(projectDependencies)
         /\ fs' = fs
         /\ Range(projectPackageListing') = Entries(fs)
         /\ Len(projectPackageListing') = Cardinality(Entries(fs))
         /\ Range(projectRedundantPackageNames') = Entries(fs) \ Declared(fs)
    /\ (Rank(pc) = 2 /\ Rank(pc') = 3) =>
         /\ redundantIndex > Len(projectRedundantPackageNames)
         /\ fs' = fs
         /\ Range(projectPackageScopes') = Scopes(fs)
         /\ Len(projectPackageScopes') = Cardinality(Scopes(fs))
    /\ (Rank(pc) = 3 /\ Rank(pc') = 4) => scopeIndex > Len(projectPackageScopes)
    /\ Rank(pc) >= 2 => UNCHANGED <<projectPackageListing, projectRedundantPackageNames>>
    /\ Rank(pc) >= 3 => UNCHANGED projectPackageScopes

C15_PhaseOrder == []C15_CallsInPhaseOrder /\ [][C15_PhasesInOrder]_vars

\* the run has ended after calls of each phase: Phase 2 has removed a
\* package that Phase 1 had not found, Phase 3 a scope that Phase 2 emptied
C15_Witness ==
  /\ pc = "done"
  /\ \E j, k, l \in DOMAIN ops :
       CallRank(ops[j]) = 1 /\ CallRank(ops[k]) = 2 /\ CallRank(ops[l]) = 3
  /\ Entries(fsPhase1) # Entries(fsStart)
  /\ \E scope \in Scopes(fsPhase1) :
       /\ ~IsEmptySync(fsPhase1, EntryDir(scope))
       /\ EntryDir(scope) \notin DOMAIN fs

-----------------------------------------------------------------------------
(* C16 as stated: at the end of a run, a scope directory whose packages     *)
(* Phase 2 has all removed is gone with its .meta file, whatever else it    *)
(* held.                                                                    *)
PackagesOf(scope) ==
  { name \in Entries(fsPhase1) : Under(EntryDir(name), EntryDir(scope)) }

AllRemoved(scope) ==
  /\ PackagesOf(scope) # {}
  /\ PackagesOf(scope) \subseteq Range(projectRedundantPackageNames)

C16_EmptiedScopesPruned ==
  pc = "done" =>
    \A scope \in Scopes(fsPhase1) :
      AllRemoved(scope) =>
        /\ EntryDir(scope) \notin DOMAIN fs
        /\ EntryMeta(scope) \notin DOMAIN fs

(* C16 as amended: such a scope directory is gone with its .meta file when  *)
(* it held nothing but the removed packages and their .meta files; when it  *)
(* held anything else (a .meta file without its package) it stands at the   *)
(* end of the run, with that and with its own .meta file.                   *)
Leftovers(scope) ==
  { path \in DOMAIN fsPhase1 :
      /\ Under(path, EntryDir(scope))
      /\ \A name \in PackagesOf(scope) :
           ~Within(path, EntryDir(name)) /\ path # EntryMeta(name) }

C16_EmptiedScopesPrunedUnlessLeftovers ==
  pc = "done" =>
    \A scope \in Scopes(fsPhase1) :
      AllRemoved(scope) =>
        IF Leftovers(scope) = {}
          THEN /\ EntryDir(scope) \notin DOMAIN fs
               /\ EntryMeta(scope) \notin DOMAIN fs
          ELSE /\ EntryDir(scope) \in DOMAIN fs
               /\ Leftovers(scope) \subseteq DOMAIN fs
               /\ EntryMeta(scope) \in DOMAIN fsPhase1 => EntryMeta(scope) \in DOMAIN fs

\* the run has ended: of two scopes whose packages Phase 2 removed, the one
\* that held nothing else is gone with its .meta file, the one that held
\* a .meta file without its package stands
C16_Witness ==
  /\ pc = "done"
  /\ \E one, other \in Scopes(fsPhase1) :
       /\ AllRemoved(one) /\ Leftovers(one) = {}
       /\ EntryMeta(one) \in DOMAIN fsPhase1
       /\ EntryDir(one) \notin DOMAIN fs
       /\ AllRemoved(other) /\ Leftovers(other) # {}
       /\ EntryDir(other) \in DOMAIN fs

-----------------------------------------------------------------------------
(* C17: the step of Phase 1 on a dependency whose package.json is read and  *)
(* carries no keyword unity3d-package (or no keywords at all) makes no      *)
(* call, guards no path, changes no file and raises no error: the run is    *)
(* at the next dependency.                                                  *)
Unmarked(f, name) ==
  LET config == Append(SourceOf(name), "package.json") IN
  /\ IsFile(f, config)
  /\ "text" \notin DOMAIN f[config].data
  /\ ~Marked(f, name)

C17_UnmarkedIsSkipped ==
  (/\ pc = "phase1"
   /\ depIndex <= Len(projectDependencies)
   /\ Unmarked(fs, projectDependencies[depIndex]))
    => /\ UNCHANGED <<fs, ops, validated>>
       /\ \/ pc' = "phase1" /\ depIndex' = depIndex + 1 /\ failure' = "none"
          \/ failure' = "interrupted"

C17_SoftSkip == [][C17_UnmarkedIsSkipped]_vars

\* the run has ended: it has left the installed package of a dependency
\* without the keyword as it was, and has installed the next dependency
C17_Witness ==
  /\ pc = "done"
  /\ \E j, k \in DOMAIN projectDependencies :
       /\ j < k
       /\ Unmarked(fs, projectDependencies[j])
       /\ IsDirectory(fsStart, TargetOf(projectDependencies[j]))
       /\ Subtree(fs, TargetOf(projectDependencies[j]))
            = Subtree(fsStart, TargetOf(projectDependencies[j]))
       /\ CallsAt(TargetOf(projectDependencies[j])) = <<>>
       /\ CallsAt(TargetOf(projectDependencies[k])) # <<>>

-----------------------------------------------------------------------------
(* C18: in a run on a manifest whose names are flat or of the form          *)
(* @scope/name, Phases 2 and 3 change no file and make none; they leave the *)
(* directory of every declared dependency, all beneath it, and the scope    *)
(* directory it lies in; and what they delete is the directory of a package *)
(* that is not declared, that package's .meta file, a scope directory that  *)
(* held nothing but such, or that scope's .meta file.                       *)
Undeclared == Entries(fsPhase1) \ Declared(fs)

OfDeclared(path) ==
  \E name \in Declared(fs) :
    \/ Within(path, EntryDir(name))
    \/ /\ EntryDir(name) \in DOMAIN fsPhase1
       /\ Under(EntryDir(name), path)
       /\ Under(path, projectPackagesDir)

OfUndeclared(path) ==
  \E name \in Undeclared : Within(path, EntryDir(name)) \/ path = EntryMeta(name)

OfEmptiedScope(path) ==
  \E scope \in Scopes(fsPhase1) :
    /\ path \in {EntryDir(scope), EntryMeta(scope)}
    /\ EntryDir(scope) \notin DOMAIN fs
    /\ \A q \in DOMAIN fsPhase1 : Under(q, EntryDir(scope)) => OfUndeclared(q)

C18_DeclaredPreserved ==
  (pc \in AfterPhase1 /\ \A name \in Declared(fs) : PackageName(name)) =>
    /\ \A path \in DOMAIN fs : path \in DOMAIN fsPhase1 /\ fs[path] = fsPhase1[path]
    /\ \A path \in DOMAIN fsPhase1 :
         /\ OfDeclared(path) => path \in DOMAIN fs
         /\ path \notin DOMAIN fs => OfUndeclared(path) \/ OfEmptiedScope(path)

\* the run has ended: the installed package of a declared dependency without
\* the keyword stands in its scope, a package beside it that is not declared
\* is gone
C18_Witness ==
  /\ pc = "done"
  /\ \A name \in Declared(fs) : PackageName(name)
  /\ \E name \in Declared(fs), other \in Undeclared :
       /\ Unmarked(fs, name)
       /\ ScopedEntry(name)
       /\ IsDirectory(fs, EntryDir(name))
       /\ ScopedEntry(other)
       /\ EntryDir(other) \notin DOMAIN fs

-----------------------------------------------------------------------------
(* The steps of the run and Sync agree.                                     *)
StepsAgreeWithSync ==
  /\ (invocation = "first" /\ pc = "done") => Sync(fs0) = Ok(fs)
  /\ (invocation = "first" /\ pc = "aborted" /\ failure # "interrupted")
       => Sync(fs0) = Failed(fs)
  /\ (invocation = "rerun" /\ pc = "done") => Sync(fsFirst) = Ok(fs)
  /\ (invocation = "rerun" /\ pc = "aborted") => Sync(fsFirst) = Failed(fs)

====
